---- MODULE Spec2Model ----
(***************************************************************************)
(* qr-selfie: the upload-to-share server (src/unnamed/part_000) and the    *)
(* browser capture client (src/public/main.js).                            *)
(*                                                                         *)
(* Three specifications share the module: Spec (the server), SpecCamera    *)
(* (the client's camera acquisition and switching) and SpecCapture (the    *)
(* client's capture, upload and result panel). Each leaves the variables   *)
(* of the other two at rest.                                               *)
(*                                                                         *)
(* Server state: the process-wide manifest object, the manifest file and the      *)
(* uploads directory on disk, the upload requests received so far (a bag;  *)
(* each with the position of its handler around the awaited file write     *)
(* and whether the process that received it is still the running one),     *)
(* and the last response sent.                                             *)
(*                                                                         *)
(* Environment: a file write either completes or throws; a write that      *)
(* throws is modelled as leaving its target as it was.                     *)
(***************************************************************************)
EXTENDS Naturals, Integers, Sequences, FiniteSets, Bags, TLC

VARIABLES manifest, manifestFile, uploadsDir, reqs, lastResponse

\* the client's camera: the cameras of the machine, the module-level stream,
\* videoDevices and currentDeviceIndex, every stream getUserMedia has
\* returned, the running enableCamera and switch handlers, the statusText line,
\* whether the file picker label and the switch button are usable, and the
\* switch clicks since videoDevices was last assigned
VARIABLES hardware, stream, acquired, videoDevices, currentDeviceIndex,
          tasks, statusText, fileLabelShown, switchDisabled, cycle

\* the client's capture pipeline: the blobs made so far, lastBlobUrl, the
\* revoked blob URLs, the running capture and file handlers, and the result
\* panel (thumbnail, link, QR image, visibility)
VARIABLES blobs, lastBlobUrl, revoked, jobs, thumb, viewLink, qrImg,
          resultShown

serverVars == <<manifest, manifestFile, uploadsDir, reqs, lastResponse>>

cameraVars ==
  <<hardware, stream, acquired, videoDevices, currentDeviceIndex, tasks,
    statusText, fileLabelShown, switchDisabled, cycle>>

captureVars ==
  <<blobs, lastBlobUrl, revoked, jobs, thumb, viewLink, qrImg, resultShown>>

clientVars == <<cameraVars, captureVars>>

vars == <<serverVars, cameraVars, captureVars>>

----------------------------------------------------------------------------
(* Bounds of the model *)

\* upload requests that carry a file, over the whole run
MaxUploads == 2
\* clicks on the enable and switch buttons, over the whole run
MaxEvents == 3
\* photos captured or selected, over the whole run
MaxPhotos == 3

----------------------------------------------------------------------------
(* Values *)

\* the JavaScript value undefined
Undefined == "#undefined"

\* `${v}` inside a template literal
Str(v) == IF v = Undefined THEN "undefined" ELSE v

\* what the || operator treats as false among strings and undefined
Falsy(v) == v \in {Undefined, ""}

\* a || b
OrElse(a, b) == IF Falsy(a) THEN b ELSE a

\* ids nanoid(10) may return: 10 characters of A-Za-z0-9_-
Ids == {"V1StGXR8_Z", "3IBBoOd_u2"}

\* property names every plain object inherits from Object.prototype
ProtoKeys == {"constructor"}

\* the :id path parameters requests are made with
RequestIds == Ids \cup ProtoKeys

\* `http://${LOCAL_IP}:${PORT}`
BASE_URL == "http://192.168.1.5:3000"

\* contents of an uploaded file
Buffers == {"bytes1", "bytes2"}

\* values Date.now() returns
Timestamps == {1, 2}

\* the declared content types and original file names uploads are made with
Mimetypes == {"image/png", "application/octet-stream"}
OriginalNames == {"blob"}

\* mimeToExt[mimetype]
mimeToExt(mimetype) ==
  CASE mimetype \in {"image/jpeg", "image/jpg"} -> ".jpg"
    [] mimetype = "image/png" -> ".png"
    [] mimetype = "image/webp" -> ".webp"
    [] mimetype = "image/gif" -> ".gif"
    [] mimetype = "image/heic" -> ".heic"
    [] mimetype = "image/heif" -> ".heif"
    [] OTHER -> Undefined

\* path.extname on the names of OriginalNames
extname(name) == IF name = "photo.gif" THEN ".gif" ELSE ""

\* const ext = mimeToExt[mimetype] || path.extname(originalname) || '.jpg'
ExtOf(mimetype, originalname) ==
  OrElse(OrElse(mimeToExt(mimetype), extname(originalname)), ".jpg")

\* const filename = id + ext
FilenameOf(id, mimetype, originalname) == id \o ExtOf(mimetype, originalname)

Filenames ==
  {FilenameOf(id, m, o) : id \in Ids, m \in Mimetypes, o \in OriginalNames}

----------------------------------------------------------------------------
(* The manifest and its file *)

EmptyManifest == [k \in {} |-> [filename |-> "", createdAt |-> 0]]

NoFile == [kind |-> "absent", entries |-> {}]
GarbageFile == [kind |-> "garbage", entries |-> {}]

\* JSON.stringify(manifest, null, 2): one member per key
JSONStringify(m) ==
  [kind |-> "json",
   entries |-> {<<k, m[k].filename, m[k].createdAt>> : k \in DOMAIN m}]

\* whether JSON.parse(raw) returns
Parses(raw) == raw.kind = "json"

\* JSON.parse(raw), for a raw that parses
JSONParse(raw) ==
  [k \in {e[1] : e \in raw.entries} |->
     LET e == CHOOSE x \in raw.entries : x[1] = k
     IN  [filename |-> e[2], createdAt |-> e[3]]]

\* a loadManifest that reads another path than saveManifest writes
loadManifestWrongPath(file) == EmptyManifest

\* loadManifest(): readFileSync throws on a missing file, JSON.parse on an
\* unparsable one; both are caught and yield {}
loadManifest(file) ==
  IF file.kind = "absent" THEN EmptyManifest
  ELSE IF ~Parses(file) THEN EmptyManifest
  ELSE JSONParse(file)

\* saveManifest(manifest), when writeFileSync returns
saveManifest(m) == JSONStringify(m)

\* manifest = { [id]: rec }
PutRecordAlone(m, id, rec) == [k \in {id} |-> rec]

\* manifest[id] = rec
PutRecord(m, id, rec) ==
  [k \in DOMAIN m \cup {id} |-> IF k = id THEN rec ELSE m[k]]

\* const rec = manifest[id]: an own property, else one inherited from
\* Object.prototype, else undefined
Lookup(m, id) ==
  IF id \in DOMAIN m
    THEN [kind |-> "record", filename |-> m[id].filename]
  ELSE IF id \in ProtoKeys
    THEN [kind |-> "inherited", filename |-> Undefined]
  ELSE [kind |-> "undefined", filename |-> Undefined]

\* !rec is false for every object and function
Truthy(rec) == rec.kind # "undefined"

----------------------------------------------------------------------------
(* Responses *)

Response(route, arg, status, id, imageUrl, viewUrl, encoded) ==
  [route |-> route, arg |-> arg, status |-> status, id |-> id,
   imageUrl |-> imageUrl, viewUrl |-> viewUrl, encoded |-> encoded]

NoResponse == Response("none", "", 0, "", "", "", FALSE)

\* `${BASE_URL}/view/${id}`
ViewUrl(id) == BASE_URL \o "/view/" \o Str(id)

\* app.get('/api/meta/:id')
MetaResponse(m, id) ==
  LET rec == Lookup(m, id)
  IN  IF ~Truthy(rec)
        THEN Response("meta", id, 404, "", "", "", FALSE)
        ELSE Response("meta", id, 200, id,
                      "/uploads/" \o Str(rec.filename), ViewUrl(id), FALSE)

\* app.get('/view/:id')
ViewResponse(m, id) ==
  LET rec == Lookup(m, id)
  IN  IF ~Truthy(rec)
        THEN Response("view", id, 404, "", "", "", FALSE)
        ELSE Response("view", id, 200, id, "", "", FALSE)

\* the text query parameters /api/qr is requested with; the last one is
\* longer than a QR symbol can hold
OversizeText == "https://example.com/view/abc?pad=..."
QrTexts == {Undefined, "", "https://example.com/view/abc", OversizeText}

\* QRCode.toBuffer(text, ...) throws when the data does not fit a symbol
EncoderFails(text) == text = OversizeText

\* a handler without the if (!text) return: the encoder is called with ''
\* and throws
QrResponseNoCheck(queryText) ==
  LET text == OrElse(queryText, "")
  IN  IF Falsy(text) \/ EncoderFails(text)
        THEN Response("qr", queryText, 500, "", "", "", TRUE)
      ELSE Response("qr", queryText, 200, "", "", "", TRUE)

\* app.get('/api/qr')
QrResponse(queryText) ==
  LET text == OrElse(queryText, "")
  IN  IF Falsy(text)
        THEN Response("qr", queryText, 400, "", "", "", FALSE)
      ELSE IF EncoderFails(text)
        THEN Response("qr", queryText, 500, "", "", "", TRUE)
      ELSE Response("qr", queryText, 200, "", "", "", TRUE)

----------------------------------------------------------------------------
(* Upload requests *)

\* an upload whose handler has called fs.promises.writeFile
NewUpload(id, filename, buffer) ==
  [id |-> id, filename |-> filename, buffer |-> buffer, pc |-> "writing"]

Requests == BagToSet(reqs)

\* the handler is suspended at the await
Writing(r) == r.pc = "writing"
\* the file write has completed and the handler has not resumed yet
Written(r) == r.pc = "written"
\* the upload answered 200 in the running process
Ok(r) == r.pc = "ok"
\* the upload answered 500 in the running process
Failed(r) == r.pc \in {"writeFailed", "saveFailed"}
\* the upload answered 200 in a process that has since stopped
OkBefore(r) == r.pc = "okBefore"

\* the bag with one copy of r replaced by r2
Replace(bag, r, r2) == (bag (-) SetToBag({r})) (+) SetToBag({r2})

RECURSIVE SumCopies(_, _)
SumCopies(S, bag) ==
  IF S = {} THEN 0
  ELSE LET r == CHOOSE x \in S : TRUE
       IN  CopiesIn(r, bag) + SumCopies(S \ {r}, bag)

\* the requests once the process that received them is gone: suspended
\* handlers are killed, answered requests stay answered
Orphan(bag) ==
  LET old(r) == IF Writing(r) \/ Written(r) THEN [r EXCEPT !.pc = "killed"]
                ELSE IF Ok(r) THEN [r EXCEPT !.pc = "okBefore"]
                ELSE IF Failed(r) THEN [r EXCEPT !.pc = "failedBefore"]
                ELSE r
  IN  [x \in {old(r) : r \in BagToSet(bag)} |->
         SumCopies({r \in BagToSet(bag) : old(r) = x}, bag)]

TypeOK ==
  /\ DOMAIN manifest \subseteq Ids
  /\ manifestFile.kind \in {"absent", "garbage", "json"}
  /\ DOMAIN uploadsDir \subseteq Filenames
  /\ \A f \in DOMAIN uploadsDir : uploadsDir[f] \in Buffers
  /\ IsABag(reqs)
  /\ BagCardinality(reqs) <= MaxUploads

----------------------------------------------------------------------------
(* Actions *)

\* main.js as loaded by a page on a machine without cameras, its buttons
\* untouched
CameraAtRest ==
  /\ hardware = <<>>
  /\ stream = 0
  /\ acquired = <<>>
  /\ videoDevices = <<>>
  /\ currentDeviceIndex = -1
  /\ tasks = <<>>
  /\ statusText = ""
  /\ fileLabelShown = FALSE
  /\ switchDisabled = TRUE
  /\ cycle = [start |-> -1, clicks |-> 0, reqs |-> <<>>, failed |-> FALSE]

\* setQR(text): '/api/qr?text=' + encodeURIComponent(text), kept as the path
\* and the text the query string decodes to
QrSrc(text) == [path |-> "/api/qr", text |-> text]

\* an img element without a source
NoSrc == [path |-> "", text |-> ""]

\* no photo taken yet: no blob URL (0) created, the result panel hidden
CaptureAtRest ==
  /\ blobs = 0
  /\ lastBlobUrl = 0
  /\ revoked = {}
  /\ jobs = <<>>
  /\ thumb = 0
  /\ viewLink = ""
  /\ qrImg = NoSrc
  /\ resultShown = FALSE

\* the manifest file a first start may find: none, an unparsable one, or
\* the empty mapping; the uploads directory is empty
Init ==
  /\ manifestFile \in {NoFile, GarbageFile, JSONStringify(EmptyManifest)}
  /\ manifest = loadManifest(manifestFile)
  /\ uploadsDir = [f \in {} |-> ""]
  /\ reqs = EmptyBag
  /\ lastResponse = NoResponse
  /\ CameraAtRest
  /\ CaptureAtRest

\* a handler that adds the manifest entry before it looks at req.file
UploadNoFileLate ==
  /\ \E id \in Ids, t \in Timestamps :
       manifest' = PutRecord(manifest, id,
                             [filename |-> id \o ".jpg", createdAt |-> t])
  /\ lastResponse' = Response("upload", "nofile", 400, "", "", "", FALSE)
  /\ UNCHANGED <<manifestFile, uploadsDir, reqs>>
  /\ UNCHANGED clientVars

\* POST /api/upload without a photo field: if (!req.file) return 400
UploadNoFile ==
  /\ lastResponse' = Response("upload", "nofile", 400, "", "", "", FALSE)
  /\ UNCHANGED <<manifest, manifestFile, uploadsDir, reqs>>
  /\ UNCHANGED clientVars

\* POST /api/upload with a file, up to the await of fs.promises.writeFile
UploadBegin(id, mimetype, originalname, buffer) ==
  /\ BagCardinality(reqs) < MaxUploads
  /\ reqs' = reqs (+) SetToBag(
                {NewUpload(id, FilenameOf(id, mimetype, originalname), buffer)})
  /\ UNCHANGED <<manifest, manifestFile, uploadsDir, lastResponse>>
  /\ UNCHANGED clientVars

\* a write that lands outside the uploads directory
WriteFileElsewhere(r) ==
  /\ Writing(r)
  /\ reqs' = Replace(reqs, r, [r EXCEPT !.pc = "written"])
  /\ UNCHANGED <<manifest, manifestFile, uploadsDir, lastResponse>>
  /\ UNCHANGED clientVars

\* the awaited file write completes
WriteFileDone(r) ==
  /\ Writing(r)
  /\ uploadsDir' =
       [f \in DOMAIN uploadsDir \cup {r.filename} |->
          IF f = r.filename THEN r.buffer ELSE uploadsDir[f]]
  /\ reqs' = Replace(reqs, r, [r EXCEPT !.pc = "written"])
  /\ UNCHANGED <<manifest, manifestFile, lastResponse>>
  /\ UNCHANGED clientVars

\* the awaited file write rejects: catch, 500
WriteFileFail(r) ==
  /\ Writing(r)
  /\ reqs' = Replace(reqs, r, [r EXCEPT !.pc = "writeFailed"])
  /\ lastResponse' = Response("upload", "file", 500, "", "", "", FALSE)
  /\ UNCHANGED <<manifest, manifestFile, uploadsDir>>
  /\ UNCHANGED clientVars

\* the handler resumes after the await: manifest[id] = {...};
\* saveManifest(manifest); res.json({ id, viewUrl })
UploadResume(r, t) ==
  /\ Written(r)
  /\ manifest' = PutRecord(manifest, r.id,
                           [filename |-> r.filename, createdAt |-> t])
  /\ manifestFile' = saveManifest(manifest')
  /\ reqs' = Replace(reqs, r, [r EXCEPT !.pc = "ok"])
  /\ lastResponse' = Response("upload", "file", 200, r.id, "", ViewUrl(r.id),
                              FALSE)
  /\ UNCHANGED <<uploadsDir>>
  /\ UNCHANGED clientVars

\* the handler resumes after the await and writeFileSync throws inside
\* saveManifest: catch, 500
UploadResumeSaveFails(r, t) ==
  /\ Written(r)
  /\ manifest' = PutRecord(manifest, r.id,
                           [filename |-> r.filename, createdAt |-> t])
  /\ reqs' = Replace(reqs, r, [r EXCEPT !.pc = "saveFailed"])
  /\ lastResponse' = Response("upload", "file", 500, "", "", "", FALSE)
  /\ UNCHANGED <<manifestFile, uploadsDir>>
  /\ UNCHANGED clientVars

\* GET /api/meta/:id
GetMeta(id) ==
  /\ lastResponse' = MetaResponse(manifest, id)
  /\ UNCHANGED <<manifest, manifestFile, uploadsDir, reqs>>
  /\ UNCHANGED clientVars

\* GET /view/:id
GetView(id) ==
  /\ lastResponse' = ViewResponse(manifest, id)
  /\ UNCHANGED <<manifest, manifestFile, uploadsDir, reqs>>
  /\ UNCHANGED clientVars

\* GET /api/qr?text=...
GetQr(queryText) ==
  /\ lastResponse' = QrResponse(queryText)
  /\ UNCHANGED <<manifest, manifestFile, uploadsDir, reqs>>
  /\ UNCHANGED clientVars

\* the process stops and starts again: let manifest = loadManifest();
\* handlers suspended at the await never resume
Restart ==
  /\ manifest' = loadManifest(manifestFile)
  /\ reqs' = Orphan(reqs)
  /\ lastResponse' = NoResponse
  /\ UNCHANGED <<manifestFile, uploadsDir>>
  /\ UNCHANGED clientVars

Next ==
  \/ UploadNoFile
  \/ \E id \in Ids, m \in Mimetypes, o \in OriginalNames, b \in Buffers :
       UploadBegin(id, m, o, b)
  \/ \E r \in Requests : WriteFileDone(r)
  \/ \E r \in Requests : WriteFileFail(r)
  \/ \E r \in Requests, t \in Timestamps : UploadResume(r, t)
  \/ \E r \in Requests, t \in Timestamps : UploadResumeSaveFails(r, t)
  \/ \E id \in RequestIds : GetMeta(id)
  \/ \E id \in RequestIds : GetView(id)
  \/ \E t \in QrTexts : GetQr(t)
  \/ Restart

Spec == Init /\ [][Next]_vars

----------------------------------------------------------------------------
(* Properties *)

\* the mapping a start of the process would load now
Persisted == loadManifest(manifestFile)

\* no handler is suspended and none was killed while suspended
AllResponded ==
  \A r \in Requests : ~Writing(r) /\ ~Written(r) /\ r.pc # "killed"

\* the generator gave every upload of the run an id of its own
DistinctIds ==
  \A r \in Requests :
    /\ CopiesIn(r, reqs) = 1
    /\ \A q \in Requests : q # r => q.id # r.id

\* m holds r's entry
Records(m, r) == r.id \in DOMAIN m /\ m[r.id].filename = r.filename

C3_MetaServesUploadedBytes ==
  \A r \in Requests :
    Ok(r) =>
      LET res == MetaResponse(manifest, r.id)
      IN  /\ ViewUrl(r.id) = BASE_URL \o "/view/" \o r.id
          /\ res.status = 200
          /\ \E f \in DOMAIN uploadsDir :
               res.imageUrl = "/uploads/" \o f /\ uploadsDir[f] = r.buffer

\* C4: GET /api/meta/<id> answers 404 for every id that is not the id of a
\* stored record.
C4_UnknownIdIs404 ==
  (lastResponse.route = "meta" /\ lastResponse.arg \notin DOMAIN manifest)
    => lastResponse.status = 404

\* C5: an upload request without a photo answers 400 and changes neither
\* the manifest, nor the manifest file, nor the uploads directory, whatever
\* else is in flight.
C5_NoFileIs400AndInert ==
  [][(lastResponse' # lastResponse /\ lastResponse'.route = "upload"
        /\ lastResponse'.arg = "nofile")
       => (lastResponse'.status = 400
             /\ UNCHANGED <<manifest, manifestFile, uploadsDir>>)]_vars

\* an upload without a photo was answered while another upload was
\* suspended at its file write
C5_Witness ==
  /\ lastResponse.route = "upload"
  /\ lastResponse.arg = "nofile"
  /\ \E r \in Requests : Writing(r)
  /\ \E r \in Requests : Written(r)

\* C6: from an empty manifest and an empty uploads directory, in every
\* state every key of the manifest in memory and of the manifest file has
\* its recorded filename present in the uploads directory.
C6_EveryKeyHasFile ==
  /\ \A k \in DOMAIN manifest : manifest[k].filename \in DOMAIN uploadsDir
  /\ \A k \in DOMAIN Persisted : Persisted[k].filename \in DOMAIN uploadsDir

\* the manifest has an entry that was never persisted, after a failed
\* persist and with another upload still writing its file
C6_Witness ==
  /\ \E r \in Requests : r.pc = "saveFailed"
  /\ \E r \in Requests : Writing(r)
  /\ DOMAIN manifest # DOMAIN Persisted

\* C7: when an upload's file write succeeded and its manifest persist
\* fails, the request answers 500, the written file stays, and the id is
\* absent from the manifest file and from the manifest in memory, so GET
\* /api/meta/<id> answers 404.
C7_FailedPersistLeavesNoEntry ==
  [][\A r \in Requests :
       (Written(r) /\ reqs' = Replace(reqs, r, [r EXCEPT !.pc = "saveFailed"]))
         => /\ lastResponse'.status = 500
            /\ r.filename \in DOMAIN uploadsDir'
            /\ r.id \notin DOMAIN loadManifest(manifestFile')
            /\ r.id \notin DOMAIN manifest'
            /\ MetaResponse(manifest', r.id).status = 404]_vars

\* C8: within one process, an entry of the manifest is never removed and
\* its filename and createdAt never change, whatever id the generator
\* returns.
C8_EntriesNeverChange ==
  [][~Restart =>
       \A id \in DOMAIN manifest :
         id \in DOMAIN manifest' /\ manifest'[id] = manifest[id]]_vars

\* the process has just started
AtStart ==
  /\ lastResponse = NoResponse
  /\ \A r \in Requests : r.pc \in {"killed", "okBefore", "failedBefore"}

\* C9: at process start the manifest is the empty mapping when the file is
\* absent or unparsable, and the file's mapping otherwise; in the first
\* case GET /api/meta/<id> and GET /view/<id> answer 404 for every id until
\* an upload succeeds.
C9_StartLoadsFileOrEmpty ==
  /\ AtStart =>
       IF Parses(manifestFile) THEN manifest = JSONParse(manifestFile)
       ELSE manifest = EmptyManifest
  /\ (~Parses(manifestFile) /\ \A r \in Requests : ~Ok(r)) =>
       \A id \in RequestIds :
         /\ MetaResponse(manifest, id).status = 404
         /\ ViewResponse(manifest, id).status = 404

\* C10: GET /api/qr answers 400 without calling the encoder when text is
\* missing or empty, 500 when the encoder fails and 200 otherwise, so its
\* outcome is determined by text; it changes neither the manifest, nor the
\* manifest file, nor the uploads directory.
C10_QrDependsOnTextOnly ==
  /\ [](lastResponse.route = "qr" =>
          LET text == lastResponse.arg
          IN  IF text \in {Undefined, ""}
                THEN lastResponse.status = 400 /\ ~lastResponse.encoded
              ELSE IF EncoderFails(text)
                THEN lastResponse.status = 500 /\ lastResponse.encoded
              ELSE lastResponse.status = 200 /\ lastResponse.encoded)
  /\ [][(lastResponse' # lastResponse /\ lastResponse'.route = "qr")
          => UNCHANGED <<manifest, manifestFile, uploadsDir>>]_vars

\* a QR request without text was answered 400 while uploads were in flight
\* and the manifest was not empty
C10_Witness ==
  /\ lastResponse.route = "qr"
  /\ lastResponse.arg = Undefined
  /\ lastResponse.status = 400
  /\ DOMAIN manifest # {}
  /\ \E r \in Requests : Written(r)

----------------------------------------------------------------------------
(* The client's camera (src/public/main.js) *)

\* a server that is not running, for the client's specifications
ServerAtRest ==
  /\ manifestFile = NoFile
  /\ manifest = EmptyManifest
  /\ uploadsDir = [f \in {} |-> ""]
  /\ reqs = EmptyBag
  /\ lastResponse = NoResponse

Device(id, label) == [deviceId |-> id, label |-> label]

\* what enumerateDevices() may report as video inputs, one list per machine
DeviceLists ==
  { <<>>,
    <<Device("cam0", "Back Camera")>>,
    <<Device("cam0", "Back Camera"), Device("cam1", "Front Camera")>>,
    <<Device("cam0", ""), Device("cam1", ""), Device("cam2", "")>> }

DeviceIds == {"cam0", "cam1", "cam2"}

\* (label || '').toLowerCase().includes('front'), on the labels of DeviceLists
IncludesFront(label) == label = "Front Camera"

\* the loop of enableCamera: the first index whose label names the front
\* camera, else -1 (indices count from 0)
PreferredIndex(devs) ==
  IF \E i \in 1..Len(devs) : IncludesFront(devs[i].label)
    THEN (CHOOSE i \in 1..Len(devs) :
            /\ IncludesFront(devs[i].label)
            /\ \A j \in 1..(i - 1) : ~IncludesFront(devs[j].label)) - 1
  ELSE -1

\* videoDevices[i], for an index counted from 0
DeviceAt(devs, i) == devs[i + 1]

\* the constraints getUserMedia is called with
BroadRequest == [kind |-> "broad", deviceId |-> ""]
FacingRequest == [kind |-> "facing", deviceId |-> ""]
DeviceRequest(id) == [kind |-> "device", deviceId |-> id]

\* the argument enableCamera and the switch handler give getStream
DeviceArg(id) == "device:" \o id

\* facingOrDevice.startsWith('device:')
IsDeviceArg(arg) == \E d \in DeviceIds : arg = "device:" \o d

\* facingOrDevice.slice('device:'.length)
SliceDeviceId(arg) == CHOOSE d \in DeviceIds : arg = "device:" \o d

\* the first getUserMedia call of getStream(facingOrDevice)
FirstRequest(arg) ==
  IF IsDeviceArg(arg) THEN DeviceRequest(SliceDeviceId(arg))
  ELSE FacingRequest

\* the getUserMedia call of getStream's catch block
FallbackRequest(devs) ==
  IF Len(devs) > 0 THEN DeviceRequest(DeviceAt(devs, 0).deviceId)
  ELSE BroadRequest

\* a stream getUserMedia resolved with, its tracks running
Acquire(req) == [kind |-> req.kind, deviceId |-> req.deviceId, live |-> TRUE]

\* a stream whose tracks were stopped
Stopped == [kind |-> "stopped", deviceId |-> "", live |-> FALSE]

\* stopStream(): stream.getTracks().forEach(t => t.stop())
StopTracks(acq, st) == IF st = 0 THEN acq ELSE [acq EXCEPT ![st] = Stopped]

\* a switch handler that forgets to advance
NextIndexStuck(i, n) == i % n

\* (currentDeviceIndex + 1) % videoDevices.length
NextIndex(i, n) == (i + 1) % n

NoCameraMsg == "No camera devices found. You can choose an image instead."
CameraReadyMsg == "Camera ready."
CameraDeniedMsg == "Camera permission denied or unavailable."
SwitchedMsg(dev) ==
  "Switched camera" \o (IF dev.label # "" THEN ": " \o dev.label ELSE "")
SwitchFailedMsg == "Unable to switch camera."

\* a running or finished enableCamera() or switch handler: where it is
\* suspended, the getUserMedia call it awaits, the device of the switch, and
\* the kinds of getUserMedia calls it has made
Task(kind, pc, req, dev, tried) ==
  [kind |-> kind, pc |-> pc, req |-> req, dev |-> dev, tried |-> tried]

NoDevice == Device("", "")

\* what the properties need to remember of the switch clicks since the last
\* enumeration: the index the clicks started from, their number, the devices
\* the switch handlers requested, and whether one of their requests, or a
\* request pending while they ran, was rejected
CycleReset(i) == [start |-> i, clicks |-> 0, reqs |-> <<>>, failed |-> FALSE]

\* a page freshly loaded on a machine with some list of cameras; whether
\* the markup starts the switch button disabled is left open
CameraInit ==
  /\ ServerAtRest
  /\ CaptureAtRest
  /\ hardware \in DeviceLists
  /\ stream = 0
  /\ acquired = <<>>
  /\ videoDevices = <<>>
  /\ currentDeviceIndex = -1
  /\ tasks = <<>>
  /\ statusText = ""
  /\ fileLabelShown = FALSE
  /\ switchDisabled \in BOOLEAN
  /\ cycle = CycleReset(-1)

\* enableCamera() is called (the button, or the start on localhost): up to
\* the await of the priming getUserMedia
EnableClick ==
  /\ Len(tasks) < MaxEvents
  /\ tasks' = Append(tasks,
                     Task("enable", "prime", BroadRequest, NoDevice, <<"broad">>))
  /\ UNCHANGED <<hardware, stream, acquired, videoDevices, currentDeviceIndex,
                 statusText, fileLabelShown, switchDisabled, cycle>>
  /\ UNCHANGED <<serverVars, captureVars>>

\* the priming getUserMedia resolves; its stream is kept nowhere
PrimeResolve(i) ==
  /\ tasks[i].pc = "prime"
  /\ acquired' = Append(acquired, Acquire(tasks[i].req))
  /\ tasks' = [tasks EXCEPT ![i].pc = "enum"]
  /\ UNCHANGED <<hardware, stream, videoDevices, currentDeviceIndex, statusText,
                 fileLabelShown, switchDisabled, cycle>>
  /\ UNCHANGED <<serverVars, captureVars>>

\* the priming getUserMedia rejects: catch (_) { /* ignore */ }
PrimeReject(i) ==
  /\ tasks[i].pc = "prime"
  /\ tasks' = [tasks EXCEPT ![i].pc = "enum"]
  /\ UNCHANGED <<hardware, stream, acquired, videoDevices, currentDeviceIndex,
                 statusText, fileLabelShown, switchDisabled, cycle>>
  /\ UNCHANGED <<serverVars, captureVars>>

\* enumerateDevices() resolves: videoDevices is assigned; without devices
\* the file picker is offered; otherwise the index is chosen and getStream
\* runs up to the await of its first getUserMedia
Enumerated(i) ==
  /\ tasks[i].pc = "enum"
  /\ videoDevices' = hardware
  /\ IF Len(hardware) = 0
       THEN /\ statusText' = NoCameraMsg
            /\ fileLabelShown' = TRUE
            /\ tasks' = [tasks EXCEPT ![i].pc = "nocamera"]
            /\ cycle' = CycleReset(currentDeviceIndex)
            /\ UNCHANGED <<stream, acquired, currentDeviceIndex>>
       ELSE LET pref == PreferredIndex(hardware)
                idx  == IF pref # -1 THEN pref ELSE 0
                req  == FirstRequest(DeviceArg(DeviceAt(hardware, idx).deviceId))
            IN  /\ currentDeviceIndex' = idx
                /\ acquired' = StopTracks(acquired, stream)
                /\ stream' = 0
                /\ tasks' = [tasks EXCEPT
                     ![i].pc = "gum1", ![i].req = req,
                     ![i].tried = Append(tasks[i].tried, req.kind)]
                /\ cycle' = CycleReset(idx)
                /\ UNCHANGED <<statusText, fileLabelShown>>
  /\ UNCHANGED <<hardware, switchDisabled>>
  /\ UNCHANGED <<serverVars, captureVars>>

\* a getUserMedia of getStream resolves: stream = ...; the caller goes on
GumResolve(i) ==
  /\ tasks[i].pc \in {"gum1", "gum2"}
  /\ acquired' = Append(acquired, Acquire(tasks[i].req))
  /\ stream' = Len(acquired) + 1
  /\ tasks' = [tasks EXCEPT ![i].pc = "ok"]
  /\ IF tasks[i].kind = "enable"
       THEN /\ switchDisabled' = (Len(videoDevices) <= 1)
            /\ statusText' = CameraReadyMsg
       ELSE /\ statusText' = SwitchedMsg(tasks[i].dev)
            /\ UNCHANGED switchDisabled
  /\ UNCHANGED <<hardware, videoDevices, currentDeviceIndex, fileLabelShown,
                 cycle>>
  /\ UNCHANGED <<serverVars, captureVars>>

\* the first getUserMedia of getStream rejects: the catch block calls
\* getUserMedia again, for videoDevices[0] or for any camera
Gum1Reject(i) ==
  /\ tasks[i].pc = "gum1"
  /\ LET req == FallbackRequest(videoDevices)
     IN  /\ tasks' = [tasks EXCEPT
              ![i].pc = "gum2", ![i].req = req,
              ![i].tried = Append(tasks[i].tried, req.kind)]
         /\ currentDeviceIndex' =
              IF Len(videoDevices) > 0 THEN 0 ELSE currentDeviceIndex
         /\ cycle' = [cycle EXCEPT
              !.start = IF cycle.clicks = 0 /\ Len(videoDevices) > 0
                          THEN 0 ELSE cycle.start,
              !.failed = cycle.failed \/ cycle.clicks > 0,
              !.reqs = IF tasks[i].kind = "switch" /\ req.kind = "device"
                         THEN Append(cycle.reqs, req.deviceId)
                         ELSE cycle.reqs]
  /\ UNCHANGED <<hardware, stream, acquired, videoDevices, statusText,
                 fileLabelShown, switchDisabled>>
  /\ UNCHANGED <<serverVars, captureVars>>

\* the second getUserMedia of getStream rejects: throw e2; the caller's
\* catch sets the statusText
Gum2Reject(i) ==
  /\ tasks[i].pc = "gum2"
  /\ tasks' = [tasks EXCEPT ![i].pc = "failed"]
  /\ statusText' = IF tasks[i].kind = "enable" THEN CameraDeniedMsg
               ELSE SwitchFailedMsg
  /\ UNCHANGED <<hardware, stream, acquired, videoDevices, currentDeviceIndex,
                 fileLabelShown, switchDisabled, cycle>>
  /\ UNCHANGED <<serverVars, captureVars>>

\* a click on the switch button: nothing with at most one device; otherwise
\* the index advances and getStream runs up to the await of its first
\* getUserMedia
SwitchClick ==
  /\ ~switchDisabled
  /\ Len(tasks) < MaxEvents
  /\ IF Len(videoDevices) <= 1
       THEN /\ tasks' = Append(tasks,
                 Task("switch", "noop", BroadRequest, NoDevice, <<>>))
            /\ UNCHANGED <<stream, acquired, currentDeviceIndex, cycle>>
       ELSE LET idx == NextIndex(currentDeviceIndex, Len(videoDevices))
                dev == DeviceAt(videoDevices, idx)
                req == FirstRequest(DeviceArg(dev.deviceId))
            IN  /\ currentDeviceIndex' = idx
                /\ acquired' = StopTracks(acquired, stream)
                /\ stream' = 0
                /\ tasks' = Append(tasks,
                     Task("switch", "gum1", req, dev, <<req.kind>>))
                /\ cycle' = [cycle EXCEPT
                     !.clicks = cycle.clicks + 1,
                     !.reqs = Append(cycle.reqs, req.deviceId)]
  /\ UNCHANGED <<hardware, videoDevices, statusText, fileLabelShown,
                 switchDisabled>>
  /\ UNCHANGED <<serverVars, captureVars>>

CameraNext ==
  \/ EnableClick
  \/ SwitchClick
  \/ \E i \in DOMAIN tasks : PrimeResolve(i)
  \/ \E i \in DOMAIN tasks : PrimeReject(i)
  \/ \E i \in DOMAIN tasks : Enumerated(i)
  \/ \E i \in DOMAIN tasks : GumResolve(i)
  \/ \E i \in DOMAIN tasks : Gum1Reject(i)
  \/ \E i \in DOMAIN tasks : Gum2Reject(i)

SpecCamera == CameraInit /\ [][CameraNext]_vars

----------------------------------------------------------------------------
(* Properties of the client's camera *)

\* the acquired streams whose tracks have not been stopped
LiveStreams == {i \in DOMAIN acquired : acquired[i].live}

\* a getUserMedia or enumerateDevices call of some handler is pending
InFlight == {i \in DOMAIN tasks : tasks[i].pc \in {"prime", "enum", "gum1", "gum2"}}

\* C11: in every reachable state at most one acquired camera stream has
\* tracks that have not been stopped
C11_OneLiveStream == Cardinality(LiveStreams) <= 1

\* the kinds of request a, b and c occur in tried, in this order
TriedInOrder(tried, a, b, c) ==
  \E i, j, k \in DOMAIN tried :
    /\ i < j /\ j < k
    /\ tried[i] = a /\ tried[j] = b /\ tried[k] = c

\* C12: a handler that has shown its failure status has before that
\* requested, in this order, the preferred facing, an enumerated device and
\* any camera, and the file picker has been made available
C12_FallbackChainBeforeFailure ==
  \A i \in DOMAIN tasks :
    tasks[i].pc = "failed" =>
      /\ TriedInOrder(tasks[i].tried, "facing", "device", "broad")
      /\ fileLabelShown

\* C15: with no acquisition in flight, an active stream obtained through a
\* device request is a stream of videoDevices[currentDeviceIndex]
C15_StreamMatchesIndex ==
  (InFlight = {} /\ stream # 0 /\ acquired[stream].kind = "device") =>
    /\ currentDeviceIndex \in 0..(Len(videoDevices) - 1)
    /\ acquired[stream].deviceId =
         DeviceAt(videoDevices, currentDeviceIndex).deviceId

\* the step is a click on the switch button
IsSwitchClick ==
  /\ Len(tasks') = Len(tasks) + 1
  /\ tasks'[Len(tasks')].kind = "switch"

\* as many switch clicks as there are devices have followed the enumeration
CycleComplete ==
  /\ Len(videoDevices) >= 2
  /\ cycle.clicks = Len(videoDevices)

\* the clicks requested each enumerated device exactly once and the index
\* is back where it started
CycleVisitsAll ==
  /\ currentDeviceIndex = cycle.start
  /\ \A i \in DOMAIN videoDevices :
       Cardinality({k \in DOMAIN cycle.reqs :
                      cycle.reqs[k] = videoDevices[i].deviceId}) = 1

IndexInRange ==
  Len(videoDevices) >= 2 =>
    currentDeviceIndex \in 0..(Len(videoDevices) - 1)

ClickAdvances ==
  IsSwitchClick =>
    IF Len(videoDevices) >= 2
      THEN currentDeviceIndex' = (currentDeviceIndex + 1) % Len(videoDevices)
    ELSE /\ currentDeviceIndex' = currentDeviceIndex
         /\ stream' = stream
         /\ acquired' = acquired

----------------------------------------------------------------------------
(* The client's capture and upload (src/public/main.js) *)

\* the ids the server answers the client's uploads with, in the order of
\* the capture clicks and file selections, all distinct
UploadIds == <<"V1StGXR8_Z", "3IBBoOd_u2", "Kq5mX0aB7c", "Zt9Lw2RfH1">>

WaitingMsg == "Waiting for camera..."
CaptureFailedMsg == "Capture failed."
UploadingMsg == "Uploading..."
DoneMsg == "Done! Share the QR."
UploadFailedMsg == "Upload failed. Try again."

\* a running or finished capture or file handler: where it is suspended and
\* the blob URL it created (0: none yet); its number in jobs is its photo
Job(kind, pc, url) == [kind |-> kind, pc |-> pc, url |-> url]

\* if (lastBlobUrl) URL.revokeObjectURL(lastBlobUrl)
RevokeLast(rev, last) == IF last # 0 THEN rev \cup {last} ELSE rev

\* the camera after enableCamera() succeeded on a machine with one camera
CameraReady ==
  /\ hardware = <<Device("cam0", "Back Camera")>>
  /\ videoDevices = hardware
  /\ currentDeviceIndex = 0
  /\ acquired = <<Acquire(BroadRequest), Acquire(DeviceRequest("cam0"))>>
  /\ stream = 2
  /\ tasks = <<Task("enable", "ok", DeviceRequest("cam0"), NoDevice,
                    <<"broad", "device">>)>>
  /\ statusText = CameraReadyMsg
  /\ fileLabelShown \in BOOLEAN
  /\ switchDisabled = TRUE
  /\ cycle = CycleReset(0)

\* the camera after enableCamera() found no device
CameraMissing ==
  /\ hardware = <<>>
  /\ videoDevices = <<>>
  /\ currentDeviceIndex = -1
  /\ acquired = <<>>
  /\ stream = 0
  /\ tasks = <<Task("enable", "nocamera", BroadRequest, NoDevice, <<"broad">>)>>
  /\ statusText = NoCameraMsg
  /\ fileLabelShown = TRUE
  /\ switchDisabled = TRUE
  /\ cycle = CycleReset(-1)

\* els.btnCapture.disabled = false, line 127
CaptureEnabled ==
  \E i \in DOMAIN tasks : tasks[i].kind = "enable" /\ tasks[i].pc = "ok"

CaptureInit ==
  /\ ServerAtRest
  /\ CameraReady \/ CameraMissing
  /\ CaptureAtRest

\* a click on the capture button while the video has no dimensions yet
CaptureClickNoVideo ==
  /\ CaptureEnabled
  /\ statusText' = WaitingMsg
  /\ UNCHANGED <<hardware, stream, acquired, videoDevices, currentDeviceIndex,
                 tasks, fileLabelShown, switchDisabled, cycle>>
  /\ UNCHANGED <<serverVars, captureVars>>

\* a click on the capture button: the frame is drawn and toBlob is called
CaptureClick ==
  /\ CaptureEnabled
  /\ Len(jobs) < MaxPhotos
  /\ jobs' = Append(jobs, Job("capture", "toBlob", 0))
  /\ UNCHANGED <<blobs, lastBlobUrl, revoked, thumb, viewLink, qrImg,
                 resultShown>>
  /\ UNCHANGED <<serverVars, cameraVars>>

\* the toBlob callback runs with a null blob
ToBlobNull(j) ==
  /\ jobs[j].pc = "toBlob"
  /\ jobs' = [jobs EXCEPT ![j].pc = "failed"]
  /\ statusText' = CaptureFailedMsg
  /\ UNCHANGED <<hardware, stream, acquired, videoDevices, currentDeviceIndex,
                 tasks, fileLabelShown, switchDisabled, cycle>>
  /\ UNCHANGED <<blobs, lastBlobUrl, revoked, thumb, viewLink, qrImg,
                 resultShown>>
  /\ UNCHANGED serverVars

\* the toBlob callback runs with a blob, up to the await of uploadBlob
ToBlobDone(j) ==
  /\ jobs[j].pc = "toBlob"
  /\ revoked' = RevokeLast(revoked, lastBlobUrl)
  /\ blobs' = blobs + 1
  /\ lastBlobUrl' = blobs + 1
  /\ jobs' = [jobs EXCEPT ![j].pc = "upload", ![j].url = blobs + 1]
  /\ statusText' = UploadingMsg
  /\ UNCHANGED <<hardware, stream, acquired, videoDevices, currentDeviceIndex,
                 tasks, fileLabelShown, switchDisabled, cycle>>
  /\ UNCHANGED <<thumb, viewLink, qrImg, resultShown>>
  /\ UNCHANGED serverVars

\* a file is chosen in the file input, up to the await of fetch
FileSelected ==
  /\ fileLabelShown
  /\ Len(jobs) < MaxPhotos
  /\ blobs' = blobs + 1
  /\ revoked' = RevokeLast(revoked, lastBlobUrl)
  /\ lastBlobUrl' = blobs + 1
  /\ jobs' = Append(jobs, Job("file", "upload", blobs + 1))
  /\ statusText' = UploadingMsg
  /\ UNCHANGED <<hardware, stream, acquired, videoDevices, currentDeviceIndex,
                 tasks, fileLabelShown, switchDisabled, cycle>>
  /\ UNCHANGED <<thumb, viewLink, qrImg, resultShown>>
  /\ UNCHANGED serverVars

\* the thumbnail a handler shows after its upload: the capture handler reads
\* the global lastBlobUrl, the file handler its own blobUrl
ThumbOf(job, last) == IF job.kind = "capture" THEN last ELSE job.url

\* the upload of photo j is answered 200: the result panel is filled, shown
UploadOk(j) ==
  /\ jobs[j].pc = "upload"
  /\ LET viewUrl == ViewUrl(UploadIds[j])
     IN  /\ thumb' = ThumbOf(jobs[j], lastBlobUrl)
         /\ viewLink' = viewUrl
         /\ qrImg' = QrSrc(viewUrl)
  /\ resultShown' = TRUE
  /\ statusText' = DoneMsg
  /\ jobs' = [jobs EXCEPT ![j].pc = "done"]
  /\ UNCHANGED <<hardware, stream, acquired, videoDevices, currentDeviceIndex,
                 tasks, fileLabelShown, switchDisabled, cycle>>
  /\ UNCHANGED <<blobs, lastBlobUrl, revoked>>
  /\ UNCHANGED serverVars

\* the upload of photo j fails (no response, or res.ok false)
UploadFail(j) ==
  /\ jobs[j].pc = "upload"
  /\ jobs' = [jobs EXCEPT ![j].pc = "failed"]
  /\ statusText' = UploadFailedMsg
  /\ UNCHANGED <<hardware, stream, acquired, videoDevices, currentDeviceIndex,
                 tasks, fileLabelShown, switchDisabled, cycle>>
  /\ UNCHANGED <<blobs, lastBlobUrl, revoked, thumb, viewLink, qrImg,
                 resultShown>>
  /\ UNCHANGED serverVars

\* a click on the retake button
Retake ==
  /\ resultShown' = FALSE
  /\ statusText' = CameraReadyMsg
  /\ UNCHANGED <<hardware, stream, acquired, videoDevices, currentDeviceIndex,
                 tasks, fileLabelShown, switchDisabled, cycle>>
  /\ UNCHANGED <<blobs, lastBlobUrl, revoked, jobs, thumb, viewLink, qrImg>>
  /\ UNCHANGED serverVars

CaptureNext ==
  \/ CaptureClickNoVideo
  \/ CaptureClick
  \/ FileSelected
  \/ Retake
  \/ \E j \in DOMAIN jobs : ToBlobNull(j)
  \/ \E j \in DOMAIN jobs : ToBlobDone(j)
  \/ \E j \in DOMAIN jobs : UploadOk(j)
  \/ \E j \in DOMAIN jobs : UploadFail(j)

SpecCapture == CaptureInit /\ [][CaptureNext]_vars

----------------------------------------------------------------------------
(* Properties of the client's capture and upload *)

\* the photo whose upload was answered with this view URL
LinkRefersTo(j) == viewLink = ViewUrl(UploadIds[j])

\* the photo whose view URL the QR image encodes
QrRefersTo(j) == qrImg.path = "/api/qr" /\ qrImg.text = ViewUrl(UploadIds[j])

\* the photo whose blob URL the thumbnail shows
ThumbRefersTo(j) == jobs[j].url # 0 /\ thumb = jobs[j].url

\* C14: whenever the result panel is shown, the thumbnail, the view link
\* and the QR code refer to the same photo
C14_PanelShowsOnePhoto ==
  resultShown =>
    \E j \in DOMAIN jobs : ThumbRefersTo(j) /\ LinkRefersTo(j) /\ QrRefersTo(j)

\* C16: whenever the result panel is visible, the blob URL of the thumbnail
\* has not been revoked
C16_ThumbNotRevoked == resultShown => thumb \notin revoked

====
